---- MODULE Spec2Model ----
(***************************************************************************)
(* The `let` declaration subsystem of wsj: the PEG rules that parse a      *)
(* `let` statement (LetStmt, LetList, MultiReturnLet, SingleDeclList,      *)
(* SingleDecl), the failure classification of the disambiguator, and the   *)
(* scope binder that evaluates right-hand sides and installs bindings.     *)
(*                                                                         *)
(* A statement is a sequence of tokens.  `input` holds the tokens that     *)
(* follow the keyword `let` up to, and not including, the terminating      *)
(* statement delimiter; the PEG rules run over input \o <<";">>.           *)
(***************************************************************************)
EXTENDS Integers, Sequences, FiniteSets, TLC

VARIABLES input, parsed, scopes, pc, idx, vals, pre, outcome, evals,
          registry, reply,
          cmdline, file, mpc, interp, debug, lines, prompt, call, shown, exit,
          parses, fold

\* the statement executor: parser and binder
binderVars == <<input, parsed, scopes, pc, idx, vals, pre, outcome, evals>>

\* the function-arity registry
registryVars == <<registry, reply>>

\* the process: main, runScriptFile, runProgram and the REPL
mainVars ==
    <<cmdline, file, mpc, interp, debug, lines, prompt, call, shown, exit>>

\* the calls of the parser made so far, each with its text and its result,
\* and the call of a fold helper of the parser: its arguments and result
parserVars == <<parses, fold>>

vars == <<binderVars, registryVars, mainVars, parserVars>>

(***************************************************************************)
(* Bounds of the model.                                                    *)
(***************************************************************************)
MaxTokens == 7
MaxLen == 2
MaxDepth == 2

(***************************************************************************)
(* Tokens.                                                                 *)
(***************************************************************************)
Names == {"x", "y"}

Literals == {"1", "2"}

Callables == {"f1", "f2", "f3"}

Comma == ","

Equals == "="

Delimiter == ";"

NoResult == [ok |-> FALSE, kind |-> "NotParsed"]

Fail == [ok |-> FALSE, kind |-> "NoMatch"]

(***************************************************************************)
(* Ident and Expression are the consumed rules of the expression parser:   *)
(* here an identifier is one name token, and an expression is one primary  *)
(* token (a literal, a name or a call); an expression never contains a     *)
(* top-level comma, `=` or delimiter.                                      *)
(***************************************************************************)
Ident(toks, i) ==
    IF i <= Len(toks) /\ toks[i] \in Names
    THEN [ok |-> TRUE, node |-> [Name |-> toks[i], Pos |-> i], next |-> i + 1]
    ELSE Fail

Expression(toks, i) ==
    IF i <= Len(toks) /\ toks[i] \in Names \cup Literals \cup Callables
    THEN [ok |-> TRUE, node |-> [Tok |-> toks[i], Pos |-> i], next |-> i + 1]
    ELSE Fail

(***************************************************************************)
(* rest:(_ "," _ Ident)+ of MultiReturnLet: the greedy run of              *)
(* comma-identifier pairs starting at i.                                   *)
(***************************************************************************)
RECURSIVE IdentRun(_, _)
IdentRun(toks, i) ==
    IF i <= Len(toks) /\ toks[i] = Comma /\ Ident(toks, i + 1).ok
    THEN <<Ident(toks, i + 1).node>> \o IdentRun(toks, i + 2)
    ELSE <<>>

\* MultiReturnLet desugared into independent declarations: every identifier
\* of the run is paired with the one expression.
MultiReturnLetAsDecls(toks, i) ==
    LET first == Ident(toks, i)
        rest  == IF first.ok THEN IdentRun(toks, i + 1) ELSE <<>>
        eq    == i + 1 + 2 * Len(rest)
        expr  == Expression(toks, eq + 1)
        all   == <<first.node>> \o rest
    IN  IF /\ first.ok
           /\ Len(rest) >= 1
           /\ eq <= Len(toks)
           /\ toks[eq] = Equals
           /\ expr.ok
        THEN [ok   |-> TRUE,
              node |-> [Type         |-> "SingleDeclListStmt",
                        Declarations |->
                            [k \in 1..Len(all) |->
                                [Name  |-> all[k],
                                 Value |-> expr.node,
                                 Pos   |-> all[k].Pos]],
                        Pos          |-> i],
              next |-> expr.next]
        ELSE Fail

\* MultiReturnLet with the identifier loop prepending instead of appending:
\* Names holds the identifiers in reverse order.
MultiReturnLetReversed(toks, i) ==
    LET first == Ident(toks, i)
        rest  == IF first.ok THEN IdentRun(toks, i + 1) ELSE <<>>
        eq    == i + 1 + 2 * Len(rest)
        expr  == Expression(toks, eq + 1)
        all   == <<first.node>> \o rest
    IN  IF /\ first.ok
           /\ Len(rest) >= 1
           /\ eq <= Len(toks)
           /\ toks[eq] = Equals
           /\ expr.ok
        THEN [ok   |-> TRUE,
              node |-> [Type  |-> "MultiReturnLetStmt",
                        Names |-> [k \in 1..Len(all) |-> all[Len(all) + 1 - k]],
                        Value |-> expr.node,
                        Pos   |-> i],
              next |-> expr.next]
        ELSE Fail

\* MultiReturnLet with the identifier loop stopping one pair early: the last
\* identifier of the run is not collected.
MultiReturnLetDropLast(toks, i) ==
    LET first == Ident(toks, i)
        rest  == IF first.ok THEN IdentRun(toks, i + 1) ELSE <<>>
        eq    == i + 1 + 2 * Len(rest)
        expr  == Expression(toks, eq + 1)
    IN  IF /\ first.ok
           /\ Len(rest) >= 1
           /\ eq <= Len(toks)
           /\ toks[eq] = Equals
           /\ expr.ok
        THEN [ok   |-> TRUE,
              node |-> [Type  |-> "MultiReturnLetStmt",
                        Names |-> <<first.node>> \o SubSeq(rest, 1, Len(rest) - 1),
                        Value |-> expr.node,
                        Pos   |-> i],
              next |-> expr.next]
        ELSE Fail

MultiReturnLet(toks, i) ==
    LET first == Ident(toks, i)
        rest  == IF first.ok THEN IdentRun(toks, i + 1) ELSE <<>>
        eq    == i + 1 + 2 * Len(rest)
        expr  == Expression(toks, eq + 1)
    IN  IF /\ first.ok
           /\ Len(rest) >= 1
           /\ eq <= Len(toks)
           /\ toks[eq] = Equals
           /\ expr.ok
        THEN [ok   |-> TRUE,
              node |-> [Type  |-> "MultiReturnLetStmt",
                        Names |-> <<first.node>> \o rest,
                        Value |-> expr.node,
                        Pos   |-> i],
              next |-> expr.next]
        ELSE Fail

\* SingleDecl numbering its nodes with a counter that outlives the call:
\* the position carries the number of calls of the parser made before.
SingleDeclCounted(toks, i) ==
    LET name  == Ident(toks, i)
        value == Expression(toks, i + 2)
    IN  IF /\ name.ok
           /\ i + 1 <= Len(toks)
           /\ toks[i + 1] = Equals
           /\ value.ok
        THEN [ok   |-> TRUE,
              node |-> [Name |-> name.node, Value |-> value.node,
                        Pos |-> i + Len(parses)],
              next |-> value.next]
        ELSE Fail

SingleDecl(toks, i) ==
    LET name  == Ident(toks, i)
        value == Expression(toks, i + 2)
    IN  IF /\ name.ok
           /\ i + 1 <= Len(toks)
           /\ toks[i + 1] = Equals
           /\ value.ok
        THEN [ok   |-> TRUE,
              node |-> [Name |-> name.node, Value |-> value.node, Pos |-> i],
              next |-> value.next]
        ELSE Fail

(***************************************************************************)
(* rest:(_ "," _ SingleDecl)* of SingleDeclList: greedy, stops (without    *)
(* consuming the comma) at the first pair that does not match.             *)
(***************************************************************************)
RECURSIVE DeclRun(_, _)
DeclRun(toks, i) ==
    IF i <= Len(toks) /\ toks[i] = Comma /\ SingleDecl(toks, i + 1).ok
    THEN LET decl == SingleDecl(toks, i + 1)
             more == DeclRun(toks, decl.next)
         IN  [nodes |-> <<decl.node>> \o more.nodes, next |-> more.next]
    ELSE [nodes |-> <<>>, next |-> i]

\* SingleDeclList that returns after the first declaration's node is built:
\* the declarations of rest are matched and not collected.
SingleDeclListFirstOnly(toks, i) ==
    LET first == SingleDecl(toks, i)
        rest  == DeclRun(toks, first.next)
    IN  IF first.ok
        THEN [ok   |-> TRUE,
              node |-> [Type         |-> "SingleDeclListStmt",
                        Declarations |-> <<first.node>>,
                        Pos          |-> i],
              next |-> rest.next]
        ELSE Fail

\* SingleDeclList whose loop over rest prepends each declaration instead of
\* appending it: Declarations holds the declarations in reverse order.
SingleDeclListReversed(toks, i) ==
    LET first == SingleDecl(toks, i)
        rest  == DeclRun(toks, first.next)
        all   == <<first.node>> \o rest.nodes
    IN  IF first.ok
        THEN [ok   |-> TRUE,
              node |-> [Type         |-> "SingleDeclListStmt",
                        Declarations |->
                            [k \in 1..Len(all) |-> all[Len(all) + 1 - k]],
                        Pos          |-> i],
              next |-> rest.next]
        ELSE Fail

SingleDeclList(toks, i) ==
    LET first == SingleDecl(toks, i)
        rest  == DeclRun(toks, first.next)
    IN  IF first.ok
        THEN [ok   |-> TRUE,
              node |-> [Type         |-> "SingleDeclListStmt",
                        Declarations |-> <<first.node>> \o rest.nodes,
                        Pos          |-> i],
              next |-> rest.next]
        ELSE Fail

(***************************************************************************)
(* LetList <- MultiReturnLet / SingleDeclList: ordered choice, the second  *)
(* alternative is tried only when the first does not match.                *)
(***************************************************************************)
LetList(toks, i) ==
    IF MultiReturnLet(toks, i).ok
    THEN MultiReturnLet(toks, i)
    ELSE SingleDeclList(toks, i)

\* LetStmt that does not require the delimiter after the list: the longest
\* prefix that is a list is accepted.
LetStmtPrefix(toks, i) ==
    LET letList == LetList(toks, i)
    IN  IF letList.ok
        THEN [ok |-> TRUE, node |-> letList.node, next |-> letList.next]
        ELSE Fail

(***************************************************************************)
(* LetStmt <- "let" _ letList:LetList _ ";" : the list must be followed    *)
(* by the delimiter; a PEG sequence does not re-enter the choice inside    *)
(* LetList when the delimiter is missing.                                  *)
(***************************************************************************)
LetStmt(toks, i) ==
    LET letList == LetList(toks, i)
    IN  IF /\ letList.ok
           /\ letList.next <= Len(toks)
           /\ toks[letList.next] = Delimiter
        THEN [ok |-> TRUE, node |-> letList.node, next |-> letList.next + 1]
        ELSE Fail

(***************************************************************************)
(* The failure kind of a statement that LetStmt rejects, as the            *)
(* disambiguator's algorithm assigns it: step 2 (an identifier followed by *)
(* `=` starts independent declarations), step 3 (an identifier followed by *)
(* `,` starts an identifier run, after which one token decides) and step 5 *)
(* (a name without an initializing expression).                            *)
(***************************************************************************)
At(toks, i) == IF i >= 1 /\ i <= Len(toks) THEN toks[i] ELSE "EOF"

RECURSIVE DiagnoseDecls(_, _)
DiagnoseDecls(toks, i) ==
    IF ~Expression(toks, i + 2).ok
    THEN "MissingInitializer"
    ELSE IF At(toks, i + 3) = Comma /\ Ident(toks, i + 4).ok
         THEN IF At(toks, i + 5) = Equals
              THEN DiagnoseDecls(toks, i + 4)
              ELSE "MissingInitializer"
         ELSE "SyntaxFailure"

DiagnoseRun(toks, i) ==
    LET after == i + 1 + 2 * Len(IdentRun(toks, i + 1))
    IN  IF At(toks, after) = Equals
        THEN IF ~Expression(toks, after + 1).ok
             THEN "MissingInitializer"
             ELSE IF At(toks, after + 2) = Comma
                  THEN "MixedForm"
                  ELSE "SyntaxFailure"
        ELSE "MixedForm"

Diagnose(toks, i) ==
    IF ~Ident(toks, i).ok
    THEN "SyntaxFailure"
    ELSE IF At(toks, i + 1) = Equals
         THEN DiagnoseDecls(toks, i)
         ELSE IF At(toks, i + 1) = Comma
              THEN DiagnoseRun(toks, i)
              ELSE IF At(toks, i + 1) = Delimiter
                   THEN "MissingInitializer"
                   ELSE "SyntaxFailure"

(***************************************************************************)
(* parse_let_statement: the statement text is the tokens after `let` up to *)
(* the delimiter; the result is the DeclarationList node or the failure.   *)
(***************************************************************************)
ParseLet(text) ==
    LET toks == Append(text, Delimiter)
        stmt == LetStmt(toks, 1)
    IN  IF stmt.ok
        THEN stmt
        ELSE [ok |-> FALSE, kind |-> Diagnose(toks, 1)]

(***************************************************************************)
(* Scopes.  A frame maps the names declared in it to their values; scopes  *)
(* is the chain of frames, outermost first, the last one the active frame. *)
(***************************************************************************)
Values == {1, 2}

EmptyFrame == [n \in {} |-> 1]

Declared(frame, name) == name \in DOMAIN frame

\* Install that declares the name and leaves the assignment of its value
\* out: the name is present with the placeholder 0, which is no value.
InstallDeclareOnly(frame, name, value) ==
    [n \in DOMAIN frame \cup {name} |-> IF n = name THEN 0 ELSE frame[n]]

Install(frame, name, value) ==
    [n \in DOMAIN frame \cup {name} |-> IF n = name THEN value ELSE frame[n]]

RECURSIVE Lookup(_, _)
Lookup(sc, name) ==
    IF sc = <<>>
    THEN [ok |-> FALSE, val |-> 0]
    ELSE IF Declared(sc[Len(sc)], name)
         THEN [ok |-> TRUE, val |-> sc[Len(sc)][name]]
         ELSE Lookup(SubSeq(sc, 1, Len(sc) - 1), name)

(***************************************************************************)
(* The expression evaluator: evaluate yields a value or a RuntimeFailure,  *)
(* evaluate_call yields the CallResult of a call.  A callable fK returns K *)
(* values.                                                                 *)
(***************************************************************************)
LiteralValue(tok) == IF tok = "1" THEN 1 ELSE 2

CallResult(tok) ==
    CASE tok = "f1" -> <<1>>
      [] tok = "f2" -> <<1, 2>>
      [] tok = "f3" -> <<1, 2, 1>>

Evaluate(expr, sc) ==
    CASE expr.Tok \in Literals -> [ok |-> TRUE, val |-> LiteralValue(expr.Tok)]
      [] expr.Tok \in Names    -> Lookup(sc, expr.Tok)

EvaluateCall(expr, sc) == CallResult(expr.Tok)

(***************************************************************************)
(* The binder's results.                                                   *)
(***************************************************************************)
Failure(kind, pos, want, got, name) ==
    [kind |-> kind, pos |-> pos, want |-> want, got |-> got, name |-> name]

Success(pos) == Failure("Ok", pos, 0, 0, "")

NoOutcome == Failure("None", 0, 0, 0, "")

IsMulti(node) == node.Type = "MultiReturnLetStmt"

Identifiers(node) ==
    IF IsMulti(node)
    THEN [k \in 1..Len(node.Names) |-> node.Names[k].Name]
    ELSE [k \in 1..Len(node.Declarations) |-> node.Declarations[k].Name.Name]

\* the duplicate check left out: a repeated identifier is bound twice, the
\* last value staying.
DuplicatesNone(names) == {}

Duplicates(names) ==
    {k \in 1..Len(names) : \E j \in 1..(k - 1) : names[j] = names[k]}

\* the redeclaration check with no check at all: a binding is overwritten,
\* as assignment does.
RedeclaredNever(names, sc) == {}

\* the redeclaration check looking a name up through the whole chain.
RedeclaredInChain(names, sc) ==
    {k \in 1..Len(names) : Lookup(sc, names[k]).ok}

\* the identifiers that already exist in the same (the active) scope frame.
Redeclared(names, sc) ==
    {k \in 1..Len(names) : Declared(sc[Len(sc)], names[k])}

Min(S) == CHOOSE k \in S : \A j \in S : k <= j

RECURSIVE InstallAll(_, _, _, _)
InstallAll(frame, names, values, k) ==
    IF k > Len(names)
    THEN frame
    ELSE InstallAll(Install(frame, names[k], values[k]), names, values, k + 1)

\* bind that declares as it goes: the identifiers in front of the one found
\* redeclared are installed before the failure is returned.
BindPartial(node, values, sc) ==
    LET names  == Identifiers(node)
        active == sc[Len(sc)]
    IN  IF IsMulti(node) /\ Len(values) # Len(names)
        THEN [outcome |-> Failure("ArityMismatch", node.Pos, Len(names),
                                  Len(values), node.Value.Tok),
              scopes  |-> sc]
        ELSE IF ~IsMulti(node) /\ Duplicates(names) # {}
        THEN [outcome |-> Failure("DuplicateIdentifier", node.Pos, 0, 0,
                                  names[Min(Duplicates(names))]),
              scopes  |-> sc]
        ELSE IF Redeclared(names, sc) # {}
        THEN [outcome |-> Failure("RedeclarationInScope", node.Pos, 0, 0,
                                  names[Min(Redeclared(names, sc))]),
              scopes  |-> [sc EXCEPT ![Len(sc)] =
                              InstallAll(active,
                                  SubSeq(names, 1,
                                         Min(Redeclared(names, sc)) - 1),
                                  values, 1)]]
        ELSE [outcome |-> Success(node.Pos),
              scopes  |-> [sc EXCEPT ![Len(sc)] =
                                InstallAll(active, names, values, 1)]]

(***************************************************************************)
(* bind, after the right-hand sides were evaluated to `values`: the arity  *)
(* check of a MultiValueDecl or the duplicate check of IndependentDecls,   *)
(* then the redeclaration check against the active frame, then the         *)
(* bindings, installed in order.  The result is the outcome and the scope  *)
(* chain after the statement.                                              *)
(***************************************************************************)
Bind(node, values, sc) ==
    LET names  == Identifiers(node)
        active == sc[Len(sc)]
    IN  IF IsMulti(node) /\ Len(values) # Len(names)
        THEN [outcome |-> Failure("ArityMismatch", node.Pos, Len(names),
                                  Len(values), node.Value.Tok),
              scopes  |-> sc]
        ELSE IF ~IsMulti(node) /\ Duplicates(names) # {}
        THEN [outcome |-> Failure("DuplicateIdentifier", node.Pos, 0, 0,
                                  names[Min(Duplicates(names))]),
              scopes  |-> sc]
        ELSE IF Redeclared(names, sc) # {}
        THEN [outcome |-> Failure("RedeclarationInScope", node.Pos, 0, 0,
                                  names[Min(Redeclared(names, sc))]),
              scopes  |-> sc]
        ELSE [outcome |-> Success(node.Pos),
              scopes  |-> [sc EXCEPT ![Len(sc)] =
                                InstallAll(active, names, values, 1)]]

(***************************************************************************)
(* One statement run to completion from scope chain sc: parse, evaluate    *)
(* the right-hand sides in order, bind.                                    *)
(***************************************************************************)
RECURSIVE EvaluateAll(_, _, _)
EvaluateAll(decls, sc, k) ==
    IF k > Len(decls)
    THEN [ok |-> TRUE, vals |-> <<>>, at |-> 0]
    ELSE LET v == Evaluate(decls[k].Value, sc)
         IN  IF ~v.ok
             THEN [ok |-> FALSE, vals |-> <<>>, at |-> k]
             ELSE LET more == EvaluateAll(decls, sc, k + 1)
                  IN  [ok   |-> more.ok,
                       vals |-> <<v.val>> \o more.vals,
                       at   |-> more.at]

ExecuteParsed(stmt, sc) ==
    IF ~stmt.ok
    THEN [outcome |-> Failure(stmt.kind, 1, 0, 0, ""), scopes |-> sc]
    ELSE IF IsMulti(stmt.node)
    THEN Bind(stmt.node, EvaluateCall(stmt.node.Value, sc), sc)
    ELSE LET ev == EvaluateAll(stmt.node.Declarations, sc, 1)
         IN  IF ev.ok
             THEN Bind(stmt.node, ev.vals, sc)
             ELSE [outcome |-> Failure("RuntimeFailure", stmt.node.Pos, 0, 0,
                               stmt.node.Declarations[ev.at].Value.Tok),
                   scopes  |-> sc]

Execute(text, sc) == ExecuteParsed(ParseLet(text), sc)

(***************************************************************************)
(* A program of statements, executed in order; the first failure ends it.  *)
(***************************************************************************)
RECURSIVE ExecuteProgram(_, _)
ExecuteProgram(stmts, sc) ==
    IF stmts = <<>>
    THEN [ok |-> TRUE, scopes |-> sc]
    ELSE LET r == Execute(Head(stmts), sc)
         IN  IF r.outcome.kind = "Ok"
             THEN ExecuteProgram(Tail(stmts), r.scopes)
             ELSE [ok |-> FALSE, scopes |-> r.scopes]

(***************************************************************************)
(* The statements submitted to the binder: well-formed `let` statements of *)
(* both forms with up to MaxLen declarations or identifiers, and the       *)
(* malformed shapes.                                                       *)
(***************************************************************************)
ValueExprs == Literals \cup {"x"}

RECURSIVE IndependentTexts(_)
IndependentTexts(n) ==
    IF n = 1
    THEN {<<nm, Equals, e>> : nm \in Names, e \in ValueExprs}
    ELSE {t \o <<Comma, nm, Equals, e>> :
             t \in IndependentTexts(n - 1), nm \in Names, e \in ValueExprs}

RECURSIVE NameRuns(_)
NameRuns(n) ==
    IF n = 1
    THEN {<<nm>> : nm \in Names}
    ELSE {t \o <<Comma, nm>> : t \in NameRuns(n - 1), nm \in Names}

MultiValueTexts(n) == {t \o <<Equals, f>> : t \in NameRuns(n), f \in Callables}

MalformedTexts ==
    { <<"x">>, <<"x", Equals>>, <<"x", Comma, "y">>,
      <<"x", Equals, "1", Comma, "y">>,
      <<"x", Comma, "y", Equals, "1", Comma, "2">> }

Programs ==
    UNION {IndependentTexts(n) : n \in 1..MaxLen}
      \cup UNION {MultiValueTexts(n) : n \in 2..(MaxLen + 1)}
      \cup MalformedTexts

(***************************************************************************)
(* The function-arity registry: callable identity -> fixed return arity.   *)
(* register is idempotent for an identical re-registration and fails for a *)
(* different arity; lookup answers Some(arity) or None.                    *)
(***************************************************************************)
Arities == {1, 2, 3}

EmptyRegistry == [c \in {} |-> 1]

None == [some |-> FALSE, arity |-> 0]

Some(arity) == [some |-> TRUE, arity |-> arity]

lookup(reg, id) == IF id \in DOMAIN reg THEN Some(reg[id]) ELSE None

\* register that replaces the arity recorded for an identity already known.
registerOverwrite(reg, id, arity) ==
    [ok       |-> TRUE,
     registry |-> [c \in DOMAIN reg \cup {id} |->
                      IF c = id THEN arity ELSE reg[c]]]

register(reg, id, arity) ==
    IF id \notin DOMAIN reg
    THEN [ok       |-> TRUE,
          registry |-> [c \in DOMAIN reg \cup {id} |->
                           IF c = id THEN arity ELSE reg[c]]]
    ELSE IF reg[id] = arity
         THEN [ok |-> TRUE, registry |-> reg]
         ELSE [ok |-> FALSE, registry |-> reg]

NoReply == [op |-> "none", id |-> "", arity |-> 0, ok |-> TRUE, result |-> None]

\* a position where no expression is.
NoExpr == [Type |-> "None", Name |-> "", Pos |-> 0]

NoFold == [fn |-> "none", left |-> NoExpr, rest |-> <<>>, result |-> NoExpr]

\* no call of the parser or of its helpers made yet.
ParserIdle ==
    /\ parses = <<>>
    /\ fold = NoFold

\* the registry before any registration.
RegistryIdle ==
    /\ registry = EmptyRegistry
    /\ reply = NoReply

(***************************************************************************)
(* The process before it is started: no command line, no interpreter, no   *)
(* pending REPL input, nothing handed to runProgram, nothing written.      *)
(***************************************************************************)
NoCommandLine ==
    [showVersion |-> FALSE, showBuildInfo |-> FALSE, debugFlag |-> FALSE,
     args |-> <<>>]

NoFile == [exists |-> FALSE, data |-> <<>>]

NoInterp == [made |-> FALSE, globals |-> EmptyFrame]

NoError == [failed |-> FALSE, kind |-> "", line |-> 0]

NoCall ==
    [made |-> FALSE, interp |-> NoInterp, input |-> <<>>, err |-> NoError,
     after |-> NoError]

Running == -1

MainIdle ==
    /\ cmdline = NoCommandLine
    /\ file = NoFile
    /\ mpc = "none"
    /\ interp = NoInterp
    /\ debug = FALSE
    /\ lines = <<>>
    /\ prompt = ""
    /\ call = NoCall
    /\ shown = <<>>
    /\ exit = Running

\* the statement executor before any statement.
BinderIdle ==
    /\ input = <<>>
    /\ parsed = NoResult
    /\ scopes = <<EmptyFrame>>
    /\ pc = "idle"
    /\ idx = 0
    /\ vals = <<>>
    /\ pre = <<EmptyFrame>>
    /\ outcome = NoOutcome
    /\ evals = <<>>

(***************************************************************************)
(* The statement executor.                                                 *)
(***************************************************************************)
Init ==
    /\ input = <<>>
    /\ parsed = NoResult
    /\ scopes = <<EmptyFrame>>
    /\ pc = "idle"
    /\ idx = 0
    /\ vals = <<>>
    /\ pre = <<EmptyFrame>>
    /\ outcome = NoOutcome
    /\ evals = <<>>
    /\ RegistryIdle
    /\ MainIdle
    /\ ParserIdle

\* parse_let_statement on a submitted statement; a syntax failure ends it.
Submit(text) ==
    /\ pc = "idle"
    /\ input' = text
    /\ parsed' = ParseLet(text)
    /\ pre' = scopes
    /\ vals' = <<>>
    /\ evals' = <<>>
    /\ IF parsed'.ok
       THEN /\ pc' = "eval"
            /\ idx' = 1
            /\ outcome' = NoOutcome
       ELSE /\ pc' = "done"
            /\ idx' = 0
            /\ outcome' = Failure(parsed'.kind, 1, 0, 0, "")
    /\ UNCHANGED <<scopes, registryVars, mainVars, parserVars>>

\* the expression an evaluation step evaluates, named by its position in the
\* statement: what a side-effecting probe in that expression would record.
Evaluated(node, k) ==
    IF IsMulti(node) THEN node.Value.Pos ELSE node.Declarations[k].Value.Pos

\* EvalStep that evaluates the call of a MultiValueDecl once for each
\* identifier of the list.
EvalStepPerIdentifier ==
    /\ pc = "eval"
    /\ evals' = Append(evals, Evaluated(parsed.node, idx))
    /\ IF IsMulti(parsed.node)
       THEN /\ vals' = EvaluateCall(parsed.node.Value, scopes)
            /\ pc' = IF idx = Len(parsed.node.Names) THEN "bind" ELSE "eval"
            /\ idx' = idx + 1
            /\ UNCHANGED outcome
       ELSE LET v == Evaluate(parsed.node.Declarations[idx].Value, scopes)
            IN  IF v.ok
                THEN /\ vals' = Append(vals, v.val)
                     /\ idx' = idx + 1
                     /\ pc' = IF idx = Len(parsed.node.Declarations)
                              THEN "bind" ELSE "eval"
                     /\ UNCHANGED outcome
                ELSE /\ outcome' = Failure("RuntimeFailure", parsed.node.Pos,
                                           0, 0,
                                           parsed.node.Declarations[idx].Value.Tok)
                     /\ pc' = "done"
                     /\ UNCHANGED <<vals, idx>>
    /\ UNCHANGED <<input, parsed, scopes, pre>>
    /\ UNCHANGED <<registryVars, mainVars, parserVars>>

\* EvalStep that installs each binding as soon as its right-hand side is
\* evaluated (declare-as-you-go).
EvalStepEager ==
    /\ pc = "eval"
    /\ evals' = Append(evals, Evaluated(parsed.node, idx))
    /\ IF IsMulti(parsed.node)
       THEN /\ vals' = EvaluateCall(parsed.node.Value, scopes)
            /\ pc' = "bind"
            /\ idx' = idx + 1
            /\ UNCHANGED <<outcome, scopes>>
       ELSE LET v == Evaluate(parsed.node.Declarations[idx].Value, scopes)
            IN  IF v.ok
                THEN /\ vals' = Append(vals, v.val)
                     /\ idx' = idx + 1
                     /\ pc' = IF idx = Len(parsed.node.Declarations)
                              THEN "bind" ELSE "eval"
                     /\ scopes' = [scopes EXCEPT ![Len(scopes)] =
                           Install(@, parsed.node.Declarations[idx].Name.Name,
                                   v.val)]
                     /\ UNCHANGED outcome
                ELSE /\ outcome' = Failure("RuntimeFailure", parsed.node.Pos,
                                           0, 0,
                                           parsed.node.Declarations[idx].Value.Tok)
                     /\ pc' = "done"
                     /\ UNCHANGED <<vals, idx, scopes>>
    /\ UNCHANGED <<input, parsed, pre, registryVars, mainVars, parserVars>>

\* bind, evaluation: the next right-hand side, in the scope as it is.
EvalStep ==
    /\ pc = "eval"
    /\ evals' = Append(evals, Evaluated(parsed.node, idx))
    /\ IF IsMulti(parsed.node)
       THEN /\ vals' = EvaluateCall(parsed.node.Value, scopes)
            /\ pc' = "bind"
            /\ idx' = idx + 1
            /\ UNCHANGED outcome
       ELSE LET v == Evaluate(parsed.node.Declarations[idx].Value, scopes)
            IN  IF v.ok
                THEN /\ vals' = Append(vals, v.val)
                     /\ idx' = idx + 1
                     /\ pc' = IF idx = Len(parsed.node.Declarations)
                              THEN "bind" ELSE "eval"
                     /\ UNCHANGED outcome
                ELSE /\ outcome' = Failure("RuntimeFailure", parsed.node.Pos,
                                           0, 0,
                                           parsed.node.Declarations[idx].Value.Tok)
                     /\ pc' = "done"
                     /\ UNCHANGED <<vals, idx>>
    /\ UNCHANGED <<input, parsed, scopes, pre>>
    /\ UNCHANGED <<registryVars, mainVars, parserVars>>

\* bind, installation: the checks, then all bindings or none.
BindStep ==
    /\ pc = "bind"
    /\ LET r == Bind(parsed.node, vals, scopes)
       IN  /\ outcome' = r.outcome
           /\ scopes' = r.scopes
    /\ pc' = "done"
    /\ UNCHANGED <<input, parsed, idx, vals, pre, evals>>
    /\ UNCHANGED <<registryVars, mainVars, parserVars>>

\* control returns to the statement's caller.
Finish ==
    /\ pc = "done"
    /\ pc' = "idle"
    /\ input' = <<>>
    /\ parsed' = NoResult
    /\ idx' = 0
    /\ vals' = <<>>
    /\ pre' = scopes
    /\ outcome' = NoOutcome
    /\ evals' = <<>>
    /\ UNCHANGED <<scopes, registryVars, mainVars, parserVars>>

\* a nested block is entered: a fresh frame becomes the active one.
EnterScope ==
    /\ pc = "idle"
    /\ Len(scopes) < MaxDepth
    /\ scopes' = Append(scopes, EmptyFrame)
    /\ pre' = scopes'
    /\ UNCHANGED <<input, parsed, pc, idx, vals, outcome, evals,
                   registryVars, mainVars, parserVars>>

\* the nested block is left: its frame is dropped.
LeaveScope ==
    /\ pc = "idle"
    /\ Len(scopes) > 1
    /\ scopes' = SubSeq(scopes, 1, Len(scopes) - 1)
    /\ pre' = scopes'
    /\ UNCHANGED <<input, parsed, pc, idx, vals, outcome, evals,
                   registryVars, mainVars, parserVars>>

Next ==
    \/ \E text \in Programs : Submit(text)
    \/ EvalStep
    \/ BindStep
    \/ Finish
    \/ EnterScope
    \/ LeaveScope

Spec == Init /\ [][Next]_vars

(***************************************************************************)
(* The parser alone: every statement text of up to MaxTokens tokens.       *)
(***************************************************************************)
Alphabet == {"x", "y", "1", Comma, Equals}

Texts == UNION {[1..n -> Alphabet] : n \in 0..MaxTokens}

InitParse ==
    /\ input \in Texts
    /\ parsed = NoResult
    /\ scopes = <<EmptyFrame>>
    /\ pc = "idle"
    /\ idx = 0
    /\ vals = <<>>
    /\ pre = <<EmptyFrame>>
    /\ outcome = NoOutcome
    /\ evals = <<>>
    /\ RegistryIdle
    /\ MainIdle
    /\ ParserIdle

ParseStatement ==
    /\ pc = "idle"
    /\ parsed' = ParseLet(input)
    /\ pc' = "done"
    /\ UNCHANGED <<input, scopes, idx, vals, pre, outcome, evals,
                   registryVars, mainVars, parserVars>>

NextParse == ParseStatement

SpecParse == InitParse /\ [][NextParse]_vars

(***************************************************************************)
(* The parser called again and again: every call builds its parser from    *)
(* the text alone and keeps nothing of it; `parses` is the record of the   *)
(* calls, each with its text and what it returned.                         *)
(***************************************************************************)
MaxParses == 3

ReparseTexts ==
    { <<"x", Equals, "1">>,
      <<"x", Equals, "1", Comma, "y", Equals, "x">>,
      <<"x", Comma, "y", Equals, "f2">>,
      <<"x", Comma, "y", Equals, "1", Comma, "2">>,
      <<"x", Comma, "y">>,
      <<"x">> }

InitReparse ==
    /\ BinderIdle
    /\ RegistryIdle
    /\ MainIdle
    /\ ParserIdle

ParseText(text) ==
    /\ Len(parses) < MaxParses
    /\ input' = text
    /\ parsed' = ParseLet(text)
    /\ parses' = Append(parses, [text |-> text, result |-> ParseLet(text)])
    /\ UNCHANGED <<scopes, pc, idx, vals, pre, outcome, evals, fold>>
    /\ UNCHANGED <<registryVars, mainVars>>

NextReparse == \E text \in ReparseTexts : ParseText(text)

SpecReparse == InitReparse /\ [][NextReparse]_vars

(***************************************************************************)
(* The fold helpers of the generated parser.  An expression is an operand  *)
(* or a BinaryExpr; rest is the list of (operator, right operand) pairs    *)
(* matched after the left operand.  foldLeftBinary takes each pair with    *)
(* the operator inside its match (_ op _), foldRightBinary with the        *)
(* operator as a string.                                                   *)
(***************************************************************************)
MaxRest == 2

Operand(name, pos) == [Type |-> "Ident", Name |-> name, Pos |-> pos]

Operands == {Operand("a", 1), Operand("b", 3), Operand("c", 5)}

Operators == {"+", "^"}

BinaryExpr(left, op, right, pos) ==
    [Type |-> "BinaryExpr", Left |-> left, Operator |-> op, Right |-> right,
     Pos |-> pos]

Position(expr) == expr.Pos

RECURSIVE foldLeftFrom(_, _, _)
foldLeftFrom(result, rest, k) ==
    IF k > Len(rest)
    THEN result
    ELSE LET pair    == rest[k]
             opMatch == pair[1]
             op      == opMatch[2]
             right   == pair[2]
         IN  foldLeftFrom(BinaryExpr(result, op, right, Position(result)),
                          rest, k + 1)

foldLeftBinary(left, rest) == foldLeftFrom(left, rest, 1)

RECURSIVE foldRightBinary(_, _)
foldRightBinary(left, rest) ==
    IF Len(rest) = 0
    THEN left
    ELSE LET last     == rest[Len(rest)]
             op       == last[1]
             right    == last[2]
             headExpr == foldRightBinary(left, SubSeq(rest, 1, Len(rest) - 1))
         IN  BinaryExpr(headExpr, op, right, Position(headExpr))

Pairs == {<<op, right>> : op \in Operators, right \in Operands}

Rests == UNION {[1..n -> Pairs] : n \in 0..MaxRest}

\* the pairs as foldLeftBinary is given them: the operator in its match.
Matches(rest) ==
    [k \in 1..Len(rest) |-> <<<<"", rest[k][1], "">>, rest[k][2]>>]

InitFold ==
    /\ BinderIdle
    /\ RegistryIdle
    /\ MainIdle
    /\ parses = <<>>
    /\ fold \in {[fn |-> "none", left |-> left, rest |-> rest,
                   result |-> NoExpr] : left \in Operands, rest \in Rests}

FoldRight ==
    /\ fold.fn = "none"
    /\ fold' = [fold EXCEPT !.fn = "foldRightBinary",
                            !.result = foldRightBinary(fold.left, fold.rest)]
    /\ UNCHANGED <<binderVars, registryVars, mainVars, parses>>

FoldLeft ==
    /\ fold.fn = "none"
    /\ fold' = [fold EXCEPT !.fn = "foldLeftBinary",
                            !.rest = Matches(fold.rest),
                            !.result = foldLeftBinary(fold.left,
                                                      Matches(fold.rest))]
    /\ UNCHANGED <<binderVars, registryVars, mainVars, parses>>

NextFold ==
    \/ FoldRight
    \/ FoldLeft

SpecFold == InitFold /\ [][NextFold]_vars

(***************************************************************************)
(* The registry alone: any sequence of register and lookup calls.          *)
(***************************************************************************)
InitRegistry ==
    /\ BinderIdle
    /\ RegistryIdle
    /\ MainIdle
    /\ ParserIdle

Register(id, arity) ==
    /\ registry' = register(registry, id, arity).registry
    /\ reply' = [op |-> "register", id |-> id, arity |-> arity,
                 ok |-> register(registry, id, arity).ok, result |-> None]
    /\ UNCHANGED <<binderVars, mainVars, parserVars>>

LookupArity(id) ==
    /\ reply' = [op |-> "lookup", id |-> id, arity |-> 0, ok |-> TRUE,
                 result |-> lookup(registry, id)]
    /\ UNCHANGED <<registry, binderVars, mainVars, parserVars>>

NextRegistry ==
    \/ \E id \in Callables, arity \in Arities : Register(id, arity)
    \/ \E id \in Callables : LookupArity(id)

SpecRegistry == InitRegistry /\ [][NextRegistry]_vars

(***************************************************************************)
(* The process: main, runScriptFile, runProgram, and the REPL.  A text is  *)
(* a sequence of words; Newline is the word that ends a line.              *)
(***************************************************************************)
MaxPending == 2

Let == "let"

Newline == "\n"

Shebang == "#!"

Slashes == "//"

LetVocabulary ==
    {Let, Comma, Equals, Delimiter} \cup Names \cup Literals \cup Callables

\* strings.Count(text, sub) for sub one of "if", "for", "end": none of the
\* words of the model contains one of them except as the whole word.
Count(text, sub) == Cardinality({p \in 1..Len(text) : text[p] = sub})

\* strings.Join(lines, "\n")
RECURSIVE Join(_)
Join(ls) ==
    IF ls = <<>>
    THEN <<>>
    ELSE IF Len(ls) = 1
         THEN ls[1]
         ELSE ls[1] \o <<Newline>> \o Join(Tail(ls))

\* strings.Join(args, " "): the words of the arguments, one after another.
RECURSIVE JoinArgs(_)
JoinArgs(as) == IF as = <<>> THEN <<>> ELSE as[1] \o JoinArgs(Tail(as))

IsWord(w) == w # Newline

Words(text) == SelectSeq(text, IsWord)

NumLines(text) == 1 + Count(text, Newline)

\* the 1-based line of the k-th word of text.
LineOfWord(text, k) ==
    LET at == {p \in 1..Len(text) : text[p] # Newline}
        p  == CHOOSE q \in at : Cardinality({r \in at : r <= q}) = k
    IN  1 + Cardinality({r \in 1..p : text[r] = Newline})

Error(kind, line) == [failed |-> TRUE, kind |-> kind, line |-> line]

(***************************************************************************)
(* parser.Parse on a program of `let` statements: the statements one after *)
(* another; the first one LetStmt rejects is the error, at the line where  *)
(* that statement begins.                                                  *)
(***************************************************************************)
RECURSIVE ParseStatements(_, _, _)
ParseStatements(text, toks, i) ==
    IF i > Len(toks)
    THEN NoError
    ELSE IF toks[i] = Let /\ LetStmt(toks, i + 1).ok
         THEN ParseStatements(text, toks, LetStmt(toks, i + 1).next)
         ELSE Error(IF toks[i] = Let
                    THEN Diagnose(toks, i + 1)
                    ELSE "SyntaxFailure",
                    LineOfWord(text, i))

\* the results parser.Parse can give for text: that of the `let` rules when
\* the text is made of `let` statements; the rules of the other statements
\* (if, for, blocks, comments) are outside the model and may accept the
\* text or reject it at any of its lines.
Parse(text) ==
    IF \A p \in 1..Len(text) : text[p] \in LetVocabulary \cup {Newline}
    THEN {ParseStatements(text, Words(text), 1)}
    ELSE {NoError} \cup {Error("SyntaxFailure", l) : l \in 1..NumLines(text)}

Message(stream, text, err) == [stream |-> stream, text |-> text, err |-> err]

\* runProgram(interp, input, debug) for result res of parser.Parse: the
\* error returned and what is written; the interpreter is not used.
runProgram(interpreter, text, dbg, res) ==
    IF res.failed
    THEN [err |-> res, out |-> <<>>]
    ELSE [err |-> NoError,
          out |-> (IF dbg
                   THEN <<Message("stdout", "Parse successful!", NoError)>>
                   ELSE <<>>)
                  \o <<Message("stdout", "Program parsed successfully",
                               NoError)>>]

blockComplete(ls) ==
    LET text  == Join(ls)
        open  == Count(text, "if") + Count(text, "for")
        close == Count(text, "end")
    IN  close >= open

(***************************************************************************)
(* The inputs of the process: command lines, script files, and the lines   *)
(* typed at the REPL.                                                      *)
(***************************************************************************)
ScriptName == "a.wsj"

\* strings.HasSuffix(arg, ".wsj")
HasSuffixWsj(arg) == arg # <<>> /\ arg[Len(arg)] = ScriptName

ArgLists ==
    { <<>>,
      << <<ScriptName>> >>,
      << <<Let, "x", Equals, "1", Delimiter>> >>,
      << <<Let>>, <<"x">>, <<Equals>>, <<"1">>, <<Delimiter>> >>,
      << <<Let, "x", Delimiter>> >>,
      << <<ScriptName>>, <<ScriptName>> >> }

CommandLines ==
    [showVersion : BOOLEAN, showBuildInfo : BOOLEAN, debugFlag : BOOLEAN,
     args : ArgLists]

ScriptTexts ==
    { <<>>,
      <<Let, "x", Equals, "1", Delimiter>>,
      <<Let, "x", Equals, "1", Delimiter, Newline,
        Let, "y", Equals, "x", Delimiter>>,
      <<Let, "x", Equals, "1", Delimiter, Newline, Let, "x", Delimiter>>,
      <<Let, "x", Comma, "y", Equals, "1", Comma, "2", Delimiter>>,
      <<Newline, Newline, Let, "x", Comma, "y", Delimiter, Newline,
        Let, "x", Equals, "1", Delimiter>>,
      <<Shebang, Newline, Let, "x", Equals, "1", Delimiter>> }

Files == {NoFile} \cup {[exists |-> TRUE, data |-> t] : t \in ScriptTexts}

ReplLines ==
    { <<Let, "x", Equals, "1", Delimiter>>,
      <<Let, "y", Equals, "x", Delimiter>>,
      <<Let, "x", Equals, "1">>,
      <<Let, "x", Delimiter>>,
      <<"if", "(", "x", ")", "{">>,
      <<"for", "(", "x", ")", "{">>,
      <<"end">> }

ReplCommands ==
    { <<"$">>, <<"$debug", "on">>, <<"$debug", "off">>, <<"$debug">>,
      <<"$exit">>, <<"$vars">>, <<"$what">> }

(***************************************************************************)
(* main.                                                                   *)
(***************************************************************************)
InitMain ==
    /\ BinderIdle
    /\ RegistryIdle
    /\ ParserIdle
    /\ cmdline \in CommandLines
    /\ file \in IF Len(cmdline.args) = 1 /\ HasSuffixWsj(cmdline.args[1])
                THEN Files
                ELSE {NoFile}
    /\ mpc = "main"
    /\ interp = NoInterp
    /\ debug = FALSE
    /\ lines = <<>>
    /\ prompt = ""
    /\ call = NoCall
    /\ shown = <<>>
    /\ exit = Running

\* the flags that exit immediately
MainVersion ==
    /\ mpc = "main"
    /\ cmdline.showVersion
    /\ shown' = <<Message("stdout", "version.Short()", NoError)>>
    /\ exit' = 0
    /\ mpc' = "exited"
    /\ UNCHANGED <<cmdline, file, interp, debug, lines, prompt, call>>
    /\ UNCHANGED <<binderVars, registryVars, parserVars>>

MainBuildInfo ==
    /\ mpc = "main"
    /\ ~cmdline.showVersion
    /\ cmdline.showBuildInfo
    /\ shown' = <<Message("stdout", "version.String()", NoError)>>
    /\ exit' = 0
    /\ mpc' = "exited"
    /\ UNCHANGED <<cmdline, file, interp, debug, lines, prompt, call>>
    /\ UNCHANGED <<binderVars, registryVars, parserVars>>

Dispatch ==
    /\ mpc = "main"
    /\ ~cmdline.showVersion
    /\ ~cmdline.showBuildInfo

\* main's report of an error: the message on stderr, exit status 1.
Fatal(out, err) ==
    /\ shown' = out \o <<Message("stderr", "error: ", err)>>
    /\ exit' = 1
    /\ mpc' = "exited"

\* main returns.
Return(out) ==
    /\ shown' = out
    /\ exit' = 0
    /\ mpc' = "exited"

\* a panic ends the process: the message on stderr, exit status 2.
Panic(err) ==
    /\ shown' = <<Message("stderr", "panic: ", err)>>
    /\ exit' = 2
    /\ mpc' = "exited"

\* REPL mode, up to the loop of runREPL: readline.NewEx succeeds (ready) or
\* fails, and runREPL panics; then interpreter.New() succeeds (ok) or
\* fails, and runREPL returns the error.
MainREPL(ready, ok) ==
    /\ Dispatch
    /\ Len(cmdline.args) = 0
    /\ IF ~ready
       THEN /\ Panic(Error("failed to initialize readline", 0))
            /\ UNCHANGED <<interp, debug, prompt>>
       ELSE IF ok
       THEN /\ interp' = [made |-> TRUE, globals |-> EmptyFrame]
            /\ debug' = cmdline.debugFlag
            /\ prompt' = "> "
            /\ mpc' = "repl"
            /\ shown' = <<Message("stderr", "WSJ REPL", NoError)>>
            /\ UNCHANGED exit
       ELSE /\ Fatal(<<>>, Error("interpreter.New", 0))
            /\ UNCHANGED <<interp, debug, prompt>>
    /\ UNCHANGED <<cmdline, file, lines, call>>
    /\ UNCHANGED <<binderVars, registryVars, parserVars>>

\* script mode: runScriptFile, then runProgram with no interpreter.
MainScript ==
    /\ Dispatch
    /\ Len(cmdline.args) = 1 /\ HasSuffixWsj(cmdline.args[1])
    /\ IF ~file.exists
       THEN /\ Fatal(<<>>, Error("failed to read file", 0))
            /\ UNCHANGED call
       ELSE LET data == IF file.data # <<>> /\ Head(file.data) = Shebang
                        THEN <<Slashes>> \o Tail(file.data)
                        ELSE file.data
            IN  \E res \in Parse(data) :
                   LET r == runProgram(NoInterp, data, cmdline.debugFlag, res)
                   IN  /\ call' = [made |-> TRUE, interp |-> NoInterp,
                                   input |-> data, err |-> r.err,
                                   after |-> NoError]
                       /\ IF r.err.failed
                          THEN Fatal(r.out, r.err)
                          ELSE Return(r.out)
    /\ UNCHANGED <<cmdline, file, interp, debug, lines, prompt>>
    /\ UNCHANGED <<binderVars, registryVars, parserVars>>

\* the arguments evaluated as a program.
MainProgram ==
    /\ Dispatch
    /\ Len(cmdline.args) # 0
    /\ ~(Len(cmdline.args) = 1 /\ HasSuffixWsj(cmdline.args[1]))
    /\ LET program == JoinArgs(cmdline.args)
       IN  \E res \in Parse(program) :
              LET r == runProgram(NoInterp, program, cmdline.debugFlag, res)
              IN  /\ call' = [made |-> TRUE, interp |-> NoInterp,
                              input |-> program, err |-> r.err,
                              after |-> NoError]
                  /\ IF r.err.failed
                     THEN Fatal(r.out, r.err)
                     ELSE Return(r.out)
    /\ UNCHANGED <<cmdline, file, interp, debug, lines, prompt>>
    /\ UNCHANGED <<binderVars, registryVars, parserVars>>

(***************************************************************************)
(* runREPL: one action for each outcome of rl.Readline() in the loop.      *)
(***************************************************************************)
\* the loop is left: runREPL returns nil and main returns.
Break == Return(<<Message("stdout", "\n\n", NoError)>>)

\* ReadInterrupt that goes on with the loop and leaves the pending lines
\* where they are.
ReadInterruptKeeps ==
    /\ mpc = "repl"
    /\ IF Len(lines) > 0
       THEN /\ shown' = <<>>
            /\ UNCHANGED <<lines, mpc, exit>>
       ELSE /\ Break
            /\ UNCHANGED lines
    /\ UNCHANGED <<cmdline, file, interp, debug, prompt, call>>
    /\ UNCHANGED <<binderVars, registryVars, parserVars>>

\* readline.ErrInterrupt: pending input is dropped, with none the loop ends.
ReadInterrupt ==
    /\ mpc = "repl"
    /\ IF Len(lines) > 0
       THEN /\ lines' = <<>>
            /\ shown' = <<>>
            /\ UNCHANGED <<mpc, exit>>
       ELSE /\ Break
            /\ UNCHANGED lines
    /\ UNCHANGED <<cmdline, file, interp, debug, prompt, call>>
    /\ UNCHANGED <<binderVars, registryVars, parserVars>>

\* io.EOF
ReadEOF ==
    /\ mpc = "repl"
    /\ Break
    /\ UNCHANGED <<cmdline, file, interp, debug, lines, prompt, call>>
    /\ UNCHANGED <<binderVars, registryVars, parserVars>>

\* a line of white space only
ReadBlank ==
    /\ mpc = "repl"
    /\ shown' = <<>>
    /\ UNCHANGED <<cmdline, file, mpc, interp, debug, lines, prompt, call,
                   exit>>
    /\ UNCHANGED <<binderVars, registryVars, parserVars>>

\* handleReplCommand: what the command writes, and the debug flag after it.
handleReplCommand(line) ==
    LET cmd == line[1]
        arg == IF Len(line) > 1 THEN line[2] ELSE ""
        say(text) == <<Message("stdout", text, NoError)>>
    IN  CASE cmd = "$"        -> [out |-> <<>>, debug |-> debug]
          [] cmd = "$cwd"     -> [out   |-> <<Message("stderr", "wd", NoError)>>,
                                  debug |-> debug]
          [] cmd = "$debug"   ->
                IF arg = "on"
                THEN [out |-> say("Debug mode now enabled"), debug |-> TRUE]
                ELSE IF arg = "off"
                THEN [out |-> say("Debug mode now disabled"), debug |-> FALSE]
                ELSE IF debug
                THEN [out |-> say("Debug mode is enabled"), debug |-> debug]
                ELSE [out |-> say("Debug mode is disabled"), debug |-> debug]
          [] cmd = "$hexes"   -> [out   |-> say("$hexes is not implemented yet"),
                                  debug |-> debug]
          [] cmd = "$vars"    -> [out   |-> say("$vars is not implemented yet"),
                                  debug |-> debug]
          [] cmd = "$version" -> [out   |-> <<Message("stderr", "repl version",
                                                      NoError)>>,
                                  debug |-> debug]
          [] OTHER            -> [out   |-> say("Unknown REPL command"),
                                  debug |-> debug]

\* a line that starts with `$`: a REPL command; `$exit` ends the process.
ReadCommand(line) ==
    /\ mpc = "repl"
    /\ IF line[1] = "$exit"
       THEN /\ exit' = 0
            /\ mpc' = "exited"
            /\ shown' = <<>>
            /\ UNCHANGED debug
       ELSE /\ shown' = handleReplCommand(line).out
            /\ debug' = handleReplCommand(line).debug
            /\ UNCHANGED <<mpc, exit>>
    /\ UNCHANGED <<cmdline, file, interp, lines, prompt, call>>
    /\ UNCHANGED <<binderVars, registryVars, parserVars>>

\* ReadLine that empties the buffer only when the block ran without error.
ReadLineKeepsFailed(line) ==
    /\ mpc = "repl"
    /\ Len(lines) < MaxPending
    /\ LET buffer == Append(lines, line)
       IN  IF blockComplete(buffer)
           THEN \E res \in Parse(Join(buffer)) :
                   LET r == runProgram(interp, Join(buffer), debug, res)
                   IN  /\ lines' = IF r.err.failed THEN buffer ELSE <<>>
                       /\ prompt' = "> "
                       /\ call' = [made |-> TRUE, interp |-> interp,
                                   input |-> Join(buffer), err |-> r.err,
                                   after |-> call.err]
                       /\ shown' = r.out
           ELSE /\ lines' = buffer
                /\ prompt' = ". "
                /\ shown' = <<>>
                /\ UNCHANGED call
    /\ UNCHANGED <<cmdline, file, mpc, interp, debug, exit>>
    /\ UNCHANGED <<binderVars, registryVars, parserVars>>

\* any other line: appended to the pending lines; a complete block is
\* joined, the buffer emptied, and the text handed to runProgram, whose
\* returned error is not looked at.
ReadLine(line) ==
    /\ mpc = "repl"
    /\ Len(lines) < MaxPending
    /\ LET buffer == Append(lines, line)
       IN  IF blockComplete(buffer)
           THEN \E res \in Parse(Join(buffer)) :
                   LET r == runProgram(interp, Join(buffer), debug, res)
                   IN  /\ lines' = <<>>
                       /\ prompt' = "> "
                       /\ call' = [made |-> TRUE, interp |-> interp,
                                   input |-> Join(buffer), err |-> r.err,
                                   after |-> call.err]
                       /\ shown' = r.out
           ELSE /\ lines' = buffer
                /\ prompt' = ". "
                /\ shown' = <<>>
                /\ UNCHANGED call
    /\ UNCHANGED <<cmdline, file, mpc, interp, debug, exit>>
    /\ UNCHANGED <<binderVars, registryVars, parserVars>>

NextMain ==
    \/ MainVersion
    \/ MainBuildInfo
    \/ \E ready, ok \in BOOLEAN : MainREPL(ready, ok)
    \/ MainScript
    \/ MainProgram
    \/ ReadInterrupt
    \/ ReadEOF
    \/ ReadBlank
    \/ \E line \in ReplCommands : ReadCommand(line)
    \/ \E line \in ReplLines : ReadLine(line)

SpecMain == InitMain /\ [][NextMain]_vars

(***************************************************************************)
(* A script run by the interpreter: the text is parsed as a whole, then    *)
(* the statements are executed in order and the first failure ends the     *)
(* run.  A failure is located by the line of the position it carries: a    *)
(* syntax failure that of the statement's first word, a failure of the     *)
(* binder that of the statement's node, which the actions of               *)
(* MultiReturnLet and SingleDeclList set to the position where the match   *)
(* of the list starts (LetStmt returns the list's node as it is).          *)
(***************************************************************************)
ScriptStatements ==
    { <<"x", Equals, "1">>,
      <<"y", Equals, "x">>,
      <<"x", Equals, "1", Comma, "x", Equals, "2">>,
      <<"x", Comma, "y", Equals, "f2">>,
      <<"x", Comma, "y", Equals, "f1">>,
      <<"x", Comma, "y", Equals, "1", Comma, "2">>,
      <<"x", Comma, "y">>,
      <<"y">> }

\* one statement as it is laid out in the file: after `gap` empty lines,
\* the keyword, a line break or not, the list, the delimiter, a line break.
Layout(gap, broken, stmt) ==
    gap \o <<Let>> \o (IF broken THEN <<Newline>> ELSE <<>>)
        \o stmt \o <<Delimiter, Newline>>

ScriptLines ==
    {Layout(gap, broken, stmt) :
        gap \in {<<>>, <<Newline>>}, broken \in BOOLEAN,
        stmt \in ScriptStatements}

ScriptPrograms == ScriptLines \cup {a \o b : a, b \in ScriptLines}

Located(failure, line) ==
    [kind |-> failure.kind, pos |-> failure.pos, want |-> failure.want,
     got |-> failure.got, name |-> failure.name, line |-> line]

\* the first word of the first statement, from word i on, that LetStmt
\* rejects; 0 when every statement is accepted.
RECURSIVE FirstRejected(_, _)
FirstRejected(toks, i) ==
    IF i > Len(toks)
    THEN 0
    ELSE IF toks[i] = Let /\ LetStmt(toks, i + 1).ok
         THEN FirstRejected(toks, LetStmt(toks, i + 1).next)
         ELSE i

InitScript ==
    /\ input \in ScriptPrograms
    /\ parsed = NoResult
    /\ scopes = <<EmptyFrame>>
    /\ pc = "idle"
    /\ idx = 0
    /\ vals = <<>>
    /\ pre = <<EmptyFrame>>
    /\ outcome = NoOutcome
    /\ evals = <<>>
    /\ RegistryIdle
    /\ MainIdle
    /\ ParserIdle

\* parser.Parse on the whole text, before anything is executed.
ParseScript ==
    /\ pc = "idle"
    /\ LET err == ParseStatements(input, Words(input), 1)
       IN  IF err.failed
           THEN /\ outcome' = Located(Failure(err.kind, 1, 0, 0, ""), err.line)
                /\ idx' = FirstRejected(Words(input), 1)
                /\ pc' = "done"
           ELSE /\ outcome' = NoOutcome
                /\ idx' = 1
                /\ pc' = "run"
    /\ UNCHANGED <<input, parsed, scopes, vals, pre, evals>>
    /\ UNCHANGED <<registryVars, mainVars, parserVars>>

\* the statement that starts at word i: its words between `let` and the
\* delimiter.
StatementText(toks, i, stmt) == SubSeq(toks, i + 1, stmt.next - 2)

\* the result r of the statement that ends before word `next`: an error
\* ends the loop with the line of the position the error carries.
Settle(next, r) ==
    /\ pre' = scopes
    /\ scopes' = r.scopes
    /\ IF r.outcome.kind = "Ok"
       THEN /\ idx' = next
            /\ UNCHANGED <<outcome, pc>>
       ELSE /\ outcome' = Located(r.outcome,
                                  LineOfWord(input, idx + r.outcome.pos))
            /\ pc' = "done"
            /\ UNCHANGED idx

ExecuteAt(toks, stmt) ==
    Settle(stmt.next, Execute(StatementText(toks, idx, stmt), scopes))

\* Execute: the next statement; an error ends the loop.
ExecuteStatement ==
    /\ pc = "run"
    /\ IF idx > Len(Words(input))
       THEN /\ outcome' = Located(Success(0), 0)
            /\ pc' = "done"
            /\ UNCHANGED <<scopes, pre, idx>>
       ELSE ExecuteAt(Words(input), LetStmt(Words(input), idx + 1))
    /\ UNCHANGED <<input, parsed, vals, evals>>
    /\ UNCHANGED <<registryVars, mainVars, parserVars>>

NextScript ==
    \/ ParseScript
    \/ ExecuteStatement

SpecScript == InitScript /\ [][NextScript]_vars

(***************************************************************************)
(* The shapes of statement texts.                                          *)
(***************************************************************************)
IsIdentList(seq) ==
    /\ Len(seq) % 2 = 1
    /\ \A i \in 1..Len(seq) :
          IF i % 2 = 1 THEN seq[i] \in Names ELSE seq[i] = Comma

\* let i1, ..., in = call   (n >= 2)
MultiForm(text) ==
    /\ Len(text) >= 5
    /\ text[Len(text) - 1] = Equals
    /\ text[Len(text)] \in Callables
    /\ IsIdentList(SubSeq(text, 1, Len(text) - 2))

MultiIdents(text) == [k \in 1..((Len(text) - 1) \div 2) |-> text[2 * k - 1]]

MultiCallee(text) == text[Len(text)]

\* let i1 = e1, ..., in = en   (n >= 1)
IndepForm(text) ==
    /\ Len(text) % 4 = 3
    /\ \A i \in 1..Len(text) :
          CASE i % 4 = 1 -> text[i] \in Names
            [] i % 4 = 2 -> text[i] = Equals
            [] i % 4 = 3 -> text[i] \in Names \cup Literals
            [] OTHER     -> text[i] = Comma

IndepCount(text) == (Len(text) + 1) \div 4

IndepIdents(text) == [k \in 1..IndepCount(text) |-> text[4 * k - 3]]

IndepExprs(text) == [k \in 1..IndepCount(text) |-> text[4 * k - 1]]

ValueOf(tok, sc) == Evaluate([Tok |-> tok, Pos |-> 0], sc)

Distinct(names) == \A j, k \in 1..Len(names) : j # k => names[j] # names[k]

Fresh(names, sc) == \A k \in 1..Len(names) : ~Declared(sc[Len(sc)], names[k])

BoundTo(sc, name, value) == Lookup(sc, name) = [ok |-> TRUE, val |-> value]

(***************************************************************************)
(* C1: a statement `let i1, ..., in = call` (n >= 2) whose call yields     *)
(* m # n values fails with ArityMismatch{want: n, got: m}, naming the      *)
(* callee, and binds nothing: the scopes after the failed bind are the     *)
(* scopes before the statement.                                            *)
(***************************************************************************)
C1_ArityMismatchBindsNothing ==
    (/\ pc = "done"
     /\ MultiForm(input)
     /\ Len(CallResult(MultiCallee(input))) # Len(MultiIdents(input)))
    => /\ outcome = Failure("ArityMismatch", 1, Len(MultiIdents(input)),
                            Len(CallResult(MultiCallee(input))),
                            MultiCallee(input))
       /\ scopes = pre

\* let x, y, z = getCoordinates() with two values returned.
C1_Witness ==
    /\ pc = "done"
    /\ MultiForm(input)
    /\ Len(MultiIdents(input)) = 3
    /\ MultiCallee(input) = "f2"
    /\ outcome.kind = "ArityMismatch"
    /\ Len(scopes) = 2

(***************************************************************************)
(* C2, as stated: a statement `let i1, ..., in = call` (n >= 2, the        *)
(* identifiers not required to be distinct) whose call yields exactly n    *)
(* values succeeds, and afterwards each i_k is bound to the k-th value.    *)
(***************************************************************************)
C2_Original ==
    (/\ pc = "done"
     /\ MultiForm(input)
     /\ Len(CallResult(MultiCallee(input))) = Len(MultiIdents(input)))
    => /\ outcome.kind = "Ok"
       /\ \A k \in 1..Len(MultiIdents(input)) :
             BoundTo(scopes, MultiIdents(input)[k],
                     CallResult(MultiCallee(input))[k])

(***************************************************************************)
(* C2, amended: the same, for pairwise distinct identifiers none of which  *)
(* is already bound in the active scope frame; the bindings are those of   *)
(* the active frame and nothing else changes.                              *)
(***************************************************************************)
C2_DistinctFreshIdentifiersBound ==
    (/\ pc = "done"
     /\ MultiForm(input)
     /\ Len(CallResult(MultiCallee(input))) = Len(MultiIdents(input))
     /\ Distinct(MultiIdents(input))
     /\ Fresh(MultiIdents(input), pre))
    => /\ outcome.kind = "Ok"
       /\ \A k \in 1..Len(MultiIdents(input)) :
             /\ Declared(scopes[Len(scopes)], MultiIdents(input)[k])
             /\ BoundTo(scopes, MultiIdents(input)[k],
                        CallResult(MultiCallee(input))[k])

\* let x, y = f2() or let y, x = f2() bound: the two names hold 1 and 2.
C2_Witness ==
    /\ pc = "done"
    /\ MultiForm(input)
    /\ Distinct(MultiIdents(input))
    /\ outcome.kind = "Ok"
    /\ BoundTo(scopes, MultiIdents(input)[1], 1)
    /\ BoundTo(scopes, MultiIdents(input)[2], 2)

(***************************************************************************)
(* C3: a statement `let i1 = e1, ..., in = en` (n >= 1) with pairwise      *)
(* distinct identifiers none of which is already bound in the active frame *)
(* succeeds, and afterwards every i_k is bound in the active scope to      *)
(* value(e_k), the value of e_k in the scope before the statement (every   *)
(* e_k has a value there).                                                 *)
(***************************************************************************)
C3_IndependentDeclsBound ==
    (/\ pc = "done"
     /\ IndepForm(input)
     /\ Distinct(IndepIdents(input))
     /\ Fresh(IndepIdents(input), pre)
     /\ \A k \in 1..IndepCount(input) : ValueOf(IndepExprs(input)[k], pre).ok)
    => /\ outcome.kind = "Ok"
       /\ \A k \in 1..IndepCount(input) :
             /\ Declared(scopes[Len(scopes)], IndepIdents(input)[k])
             /\ BoundTo(scopes, IndepIdents(input)[k],
                        ValueOf(IndepExprs(input)[k], pre).val)

\* two declarations with different values, both installed.
C3_Witness ==
    /\ pc = "done"
    /\ IndepForm(input)
    /\ IndepCount(input) = 2
    /\ outcome.kind = "Ok"
    /\ BoundTo(scopes, IndepIdents(input)[1], 2)
    /\ BoundTo(scopes, IndepIdents(input)[2], 1)

IsExprList(seq) ==
    /\ Len(seq) % 2 = 1
    /\ \A i \in 1..Len(seq) :
          IF i % 2 = 1
          THEN seq[i] \in Names \cup Literals \cup Callables
          ELSE seq[i] = Comma

\* two or more comma-separated identifiers, `=`, then two or more
\* comma-separated expressions:  let x, y = 5, 4
MixedShape(text) ==
    \E p \in 1..Len(text) :
        /\ text[p] = Equals
        /\ p >= 4
        /\ IsIdentList(SubSeq(text, 1, p - 1))
        /\ Len(text) - p >= 3
        /\ IsExprList(SubSeq(text, p + 1, Len(text)))

(***************************************************************************)
(* C4: a `let` statement with two or more comma-separated identifiers      *)
(* before the first `=` and a comma-separated list of two or more          *)
(* expressions after it is rejected at parse time with failure kind        *)
(* MixedForm, and no node is produced for it.                              *)
(***************************************************************************)
C4_MixedFormRejected ==
    (pc = "done" /\ MixedShape(input))
    => /\ ~parsed.ok
       /\ parsed.kind = "MixedForm"
       /\ "node" \notin DOMAIN parsed

\* let x, y = 1, 1
C4_Witness ==
    /\ pc = "done"
    /\ input = <<"x", Comma, "y", Equals, "1", Comma, "1">>
    /\ MixedShape(input)
    /\ parsed = [ok |-> FALSE, kind |-> "MixedForm"]

\* a statement some declared identifier of which has no `= Expression`:
\* let x   let a, b   let x = 1, y   let x =   (and longer ones alike)
MissingInitializerShape(text) ==
    \/ IsIdentList(text)
    \/ /\ Len(text) >= 2
       /\ text[Len(text)] = Equals
       /\ text[Len(text) - 1] \in Names
       /\ \/ Len(text) = 2
          \/ /\ text[Len(text) - 2] = Comma
             /\ IndepForm(SubSeq(text, 1, Len(text) - 3))
    \/ /\ Len(text) >= 5
       /\ text[Len(text)] \in Names
       /\ text[Len(text) - 1] = Comma
       /\ IndepForm(SubSeq(text, 1, Len(text) - 2))

(***************************************************************************)
(* C5: a `let` statement in which some declared identifier has no          *)
(* `= Expression` initializer fails to parse with failure kind             *)
(* MissingInitializer, and no partial node is produced.                    *)
(***************************************************************************)
C5_MissingInitializerRejected ==
    (pc = "done" /\ MissingInitializerShape(input))
    => /\ ~parsed.ok
       /\ parsed.kind = "MissingInitializer"
       /\ "node" \notin DOMAIN parsed

CommaBeforeFirstEquals(text) ==
    \E c \in 1..Len(text) :
        /\ text[c] = Comma
        /\ \A q \in 1..c : text[q] # Equals

(***************************************************************************)
(* C6: whenever a comma occurs before the first `=` of a `let` statement   *)
(* the parser produces a MultiReturnLetStmt or fails; it never produces a  *)
(* SingleDeclListStmt for it, whatever follows the `=`.                    *)
(***************************************************************************)
C6_CommaBeforeEqualsIsMultiValue ==
    (pc = "done" /\ CommaBeforeFirstEquals(input))
    => \/ ~parsed.ok
       \/ /\ parsed.node.Type = "MultiReturnLetStmt"
          /\ Len(parsed.node.Names) >= 2

\* let x, y = x  : the right-hand side is not a call, the shape is the same.
C6_Witness ==
    /\ pc = "done"
    /\ input = <<"x", Comma, "y", Equals, "x">>
    /\ parsed.ok
    /\ parsed.node.Type = "MultiReturnLetStmt"
    /\ parsed.node.Names = <<[Name |-> "x", Pos |-> 1], [Name |-> "y", Pos |-> 3]>>

StmtForm(text) == MultiForm(text) \/ IndepForm(text)

StmtIdents(text) ==
    IF MultiForm(text) THEN MultiIdents(text) ELSE IndepIdents(text)

\* no failure other than a redeclaration can arise for the statement.
NothingElseFails(text, sc) ==
    IF MultiForm(text)
    THEN Len(CallResult(MultiCallee(text))) = Len(MultiIdents(text))
    ELSE /\ Distinct(IndepIdents(text))
         /\ \A k \in 1..IndepCount(text) : ValueOf(IndepExprs(text)[k], sc).ok

Ancestors(sc) == SubSeq(sc, 1, Len(sc) - 1)

(***************************************************************************)
(* C7, as stated: a `let` statement of either form with an identifier that *)
(* is already bound in the same scope frame fails with                     *)
(* RedeclarationInScope, and the earlier binding keeps its value.          *)
(***************************************************************************)
C7_Original ==
    (/\ pc = "done"
     /\ StmtForm(input)
     /\ ~Fresh(StmtIdents(input), pre))
    => /\ outcome.kind = "RedeclarationInScope"
       /\ scopes = pre

(***************************************************************************)
(* C7, amended: such a statement always fails and leaves every earlier     *)
(* binding as it was; the failure is RedeclarationInScope unless a         *)
(* right-hand side fails to evaluate, the arity does not match or the list *)
(* repeats an identifier, which are reported first.                        *)
(***************************************************************************)
C7_RedeclarationFails ==
    (/\ pc = "done"
     /\ StmtForm(input)
     /\ ~Fresh(StmtIdents(input), pre))
    => /\ outcome.kind \in {"RedeclarationInScope", "RuntimeFailure",
                            "ArityMismatch", "DuplicateIdentifier"}
       /\ NothingElseFails(input, pre) =>
             /\ outcome.kind = "RedeclarationInScope"
             /\ ~Fresh(<<outcome.name>>, pre)
       /\ scopes = pre

\* x was bound to 1 by an earlier let of the frame; let x = 2 is refused.
C7_Witness ==
    /\ pc = "done"
    /\ input = <<"x", Equals, "2">>
    /\ BoundTo(pre, "x", 1)
    /\ Declared(pre[Len(pre)], "x")
    /\ outcome.kind = "RedeclarationInScope"
    /\ BoundTo(scopes, "x", 1)

(***************************************************************************)
(* C8: in a freshly entered nested scope no `let` fails with               *)
(* RedeclarationInScope; declaring a name that is bound in an ancestor     *)
(* scope (let x = e, e having a value) succeeds, lookups from the nested   *)
(* scope see the new value, and the ancestor frames, which are what is     *)
(* visible once the nested scope is left, are unchanged.                   *)
(***************************************************************************)
C8_ShadowingSucceeds ==
    (/\ pc = "done"
     /\ Len(pre) >= 2
     /\ pre[Len(pre)] = EmptyFrame)
    => /\ outcome.kind # "RedeclarationInScope"
       /\ Ancestors(scopes) = Ancestors(pre)
       /\ (/\ IndepForm(input)
           /\ IndepCount(input) = 1
           /\ Lookup(Ancestors(pre), input[1]).ok
           /\ ValueOf(input[3], pre).ok)
          => /\ outcome.kind = "Ok"
             /\ BoundTo(scopes, input[1], ValueOf(input[3], pre).val)
             /\ Lookup(Ancestors(scopes), input[1])
                   = Lookup(Ancestors(pre), input[1])

\* x is 1 in the outer frame; let x = 2 in the nested frame shadows it.
C8_Witness ==
    /\ pc = "done"
    /\ Len(pre) = 2
    /\ pre[2] = EmptyFrame
    /\ input = <<"x", Equals, "2">>
    /\ outcome.kind = "Ok"
    /\ BoundTo(scopes, "x", 2)
    /\ BoundTo(Ancestors(scopes), "x", 1)

Separately(text) ==
    [k \in 1..IndepCount(text) |->
        <<IndepIdents(text)[k], Equals, IndepExprs(text)[k]>>]

\* no right-hand side names an identifier declared earlier in the list.
NoUseOfEarlier(text) ==
    \A j, k \in 1..IndepCount(text) :
        j < k => IndepExprs(text)[k] # IndepIdents(text)[j]

ExprPos(k) == 4 * k - 1

Repeated(names) ==
    {names[k] : k \in {j \in 1..Len(names) :
                          \E h \in 1..Len(names) : h # j /\ names[h] = names[j]}}

C15_NoDeclaredButUnbound ==
    /\ \A i \in 1..Len(scopes) :
          \A n \in DOMAIN scopes[i] : scopes[i][n] \in Values
    /\ (pc = "done" /\ ~parsed.ok) =>
          \A i \in 1..Len(scopes) : DOMAIN scopes[i] = DOMAIN pre[i]

\* after a successful let, `let x, y` (no initializer) was refused: the
\* names of the scope are those bound before, each with its value.
C15_Witness ==
    /\ pc = "done"
    /\ input = <<"x", Comma, "y">>
    /\ ~parsed.ok
    /\ DOMAIN scopes[Len(scopes)] = {"y"}
    /\ BoundTo(scopes, "y", 2)
    /\ ~Lookup(scopes, "x").ok

(***************************************************************************)
(* C14: across any sequence of register and lookup calls an arity, once    *)
(* registered for an identity, stays: every step keeps each registered     *)
(* arity; register of an unknown identity succeeds and records the arity,  *)
(* register of a known identity with the same arity succeeds and changes   *)
(* nothing, with a different arity fails and changes nothing; lookup       *)
(* answers the recorded (hence the first registered) arity, None for an    *)
(* unknown identity.                                                       *)
(***************************************************************************)
C14_FirstRegistrationStays ==
    [][/\ \A id \in DOMAIN registry :
             id \in DOMAIN registry' /\ registry'[id] = registry[id]
       /\ reply'.op = "register" =>
             IF reply'.id \in DOMAIN registry
             THEN /\ registry' = registry
                  /\ reply'.ok = (registry[reply'.id] = reply'.arity)
             ELSE /\ reply'.ok
                  /\ DOMAIN registry' = DOMAIN registry \cup {reply'.id}
                  /\ registry'[reply'.id] = reply'.arity
       /\ reply'.op = "lookup" =>
             /\ registry' = registry
             /\ reply'.result = IF reply'.id \in DOMAIN registry
                                THEN Some(registry[reply'.id])
                                ELSE None]_vars

\* f2 was registered with arity 2; register(f2, 3) has just failed and
\* lookup(f2) still is Some(2).
C14_Witness ==
    /\ reply = [op |-> "register", id |-> "f2", arity |-> 3, ok |-> FALSE,
                result |-> None]
    /\ lookup(registry, "f2") = Some(2)
    /\ DOMAIN registry = {"f1", "f2"}

\* the words that can continue a `let` statement broken off early.
Continuations == UNION {[1..n -> {Equals, "1", Delimiter}] : n \in 1..2}

\* a text of `let` statements the parser rejects as it stands and accepts
\* once more words are typed: syntactically incomplete.
Incomplete(text) ==
    /\ \A p \in 1..Len(text) : text[p] \in LetVocabulary \cup {Newline}
    /\ ParseStatements(text, Words(text), 1).failed
    /\ \E more \in Continuations :
          ~ParseStatements(text \o more, Words(text \o more), 1).failed

\* the call of runProgram was made by the REPL (with its interpreter).
ByREPL(c) == c.made /\ c.interp.made

(***************************************************************************)
(* C16: the REPL never hands to runProgram a text that is syntactically    *)
(* incomplete: whatever lines were typed, the text of a call made by the   *)
(* REPL is not one the parser rejects only for want of more input.         *)
(***************************************************************************)
C16_NeverSubmitsIncomplete ==
    ByREPL(call) => ~Incomplete(call.input)

\* runProgram has just been called and returned an error.
FailedCall == call'.made /\ call' # call /\ call'.err.failed

Reported(out, err) ==
    \E k \in 1..Len(out) : out[k].stream = "stderr" /\ out[k].err = err

(***************************************************************************)
(* C17: every syntax failure is surfaced: whenever runProgram returns a    *)
(* parse error, in script, argument or REPL mode, the step writes an error *)
(* message for that error, which carries the line (>= 1) of the failure.   *)
(***************************************************************************)
C17_SyntaxFailureSurfaced ==
    [][FailedCall => /\ Reported(shown', call'.err)
                     /\ call'.err.line >= 1]_vars

Succeeded(out) ==
    \E k \in 1..Len(out) : out[k].text = "Program parsed successfully"

(***************************************************************************)
(* C18: a failure aborts the whole program in script and argument mode:    *)
(* the error is reported, the exit status is 1, and nothing more happens;  *)
(* in REPL mode it ends only the current block: the pending buffer is      *)
(* empty after the failed call and the REPL is still running, reading      *)
(* lines.                                                                  *)
(***************************************************************************)
C18_FailureAbortsProgramOrBlock ==
    [][/\ FailedCall =>
             IF ByREPL(call')
             THEN /\ lines' = <<>>
                  /\ mpc' = "repl"
                  /\ exit' = Running
             ELSE /\ Reported(shown', call'.err)
                  /\ ~Succeeded(shown')
                  /\ exit' = 1
                  /\ mpc' = "exited"
       /\ mpc = "exited" => UNCHANGED vars]_vars

\* in the REPL `let x;` failed, then `let x = 1;` was typed, submitted and
\* parsed.
C18_Witness ==
    /\ mpc = "repl"
    /\ ByREPL(call)
    /\ call.after.failed
    /\ call.after.kind = "MissingInitializer"
    /\ call.input = <<Let, "x", Equals, "1", Delimiter>>
    /\ ~call.err.failed
    /\ Succeeded(shown)
    /\ lines = <<>>

(***************************************************************************)
(* C19: in REPL mode every block is run by the one interpreter of the      *)
(* REPL, and a variable bound by a block is bound in it afterwards         *)
(* (`let x = 1;`, run without error, leaves x bound to 1); in script and   *)
(* argument mode the program is run by an interpreter made for it.         *)
(***************************************************************************)
C19_InterpreterPersists ==
    /\ (call.made /\ mpc = "repl") => call.interp = interp /\ interp.made
    /\ (/\ ByREPL(call)
        /\ call.input = <<Let, "x", Equals, "1", Delimiter>>
        /\ ~call.err.failed)
       => BoundTo(<<interp.globals>>, "x", 1)
    /\ (call.made /\ mpc = "exited" /\ Len(cmdline.args) > 0)
       => call.interp.made

LetFailureKinds ==
    {"MixedForm", "MissingInitializer", "DuplicateIdentifier",
     "RedeclarationInScope", "ArityMismatch"}

\* the 1-based line on which the statement whose first word is word i of
\* text begins: one more than the line breaks before its keyword.
StatementLine(text, i) ==
    LET at == CHOOSE p \in 1..Len(text) :
                 /\ text[p] = Let
                 /\ Cardinality({q \in 1..p : text[q] # Newline}) = i
    IN  1 + Cardinality({q \in 1..at : text[q] = Newline})

(***************************************************************************)
(* C20: every failure produced while parsing or binding a `let` statement  *)
(* (MixedForm, MissingInitializer, DuplicateIdentifier,                    *)
(* RedeclarationInScope, ArityMismatch) carries the 1-based line on which  *)
(* the failing statement begins.                                           *)
(***************************************************************************)
C20_FailureCarriesStatementLine ==
    (pc = "done" /\ outcome.kind \in LetFailureKinds)
    => /\ outcome.line >= 1
       /\ outcome.line = StatementLine(input, idx)

BindFailureKinds ==
    {"RuntimeFailure", "DuplicateIdentifier", "RedeclarationInScope",
     "ArityMismatch"}

\* the number of right-hand sides of a parsed statement.
RightHandSides(node) ==
    IF IsMulti(node) THEN 1 ELSE Len(node.Declarations)

\* the active frame of sc is that of before with exactly the names added.
InstalledAll(names, before, sc) ==
    /\ Len(sc) = Len(before)
    /\ \A d \in 1..(Len(sc) - 1) : sc[d] = before[d]
    /\ DOMAIN sc[Len(sc)] =
          DOMAIN before[Len(before)] \cup {names[k] : k \in 1..Len(names)}
    /\ \A n \in DOMAIN before[Len(before)] :
          sc[Len(sc)][n] = before[Len(before)][n]

C23_PromptReflectsBuffer ==
    mpc = "repl" =>
       /\ prompt = "> " <=> lines = <<>>
       /\ prompt = ". " <=> lines # <<>>

\* runProgram has just been called by the REPL.
Submitted == mpc = "repl" /\ call' # call

(***************************************************************************)
(* C24: in the REPL an interrupt received while lines are pending discards *)
(* all of them without submitting them, and the loop continues; an         *)
(* interrupt with no pending lines, and end-of-input at any time, end the  *)
(* loop; discarded lines are in no later submission: what is submitted is  *)
(* the lines pending at that moment, which an interrupt left empty, and    *)
(* the line just read.                                                     *)
(***************************************************************************)
C24_InterruptDiscardsPending ==
    [][/\ ReadInterrupt =>
             IF lines # <<>>
             THEN /\ lines' = <<>>
                  /\ call' = call
                  /\ mpc' = "repl"
                  /\ exit' = Running
             ELSE /\ mpc' = "exited"
                  /\ call' = call
       /\ ReadEOF => /\ mpc' = "exited"
                     /\ call' = call
       /\ Submitted =>
             \E line \in ReplLines :
                /\ call'.input = Join(Append(lines, line))
                /\ lines' = <<>>]_vars

\* lines were pending (the prompt was set to ". "), an interrupt emptied
\* the buffer, the REPL is still reading and nothing has been submitted.
C24_Witness ==
    /\ mpc = "repl"
    /\ prompt = ". "
    /\ lines = <<>>
    /\ ~call.made
    /\ exit = Running

\* the tree of an expression without its positions: <<name>> for an
\* operand, <<left, operator, right>> for a BinaryExpr.
RECURSIVE Shape(_)
Shape(expr) ==
    IF expr.Type = "BinaryExpr"
    THEN <<Shape(expr.Left), expr.Operator, Shape(expr.Right)>>
    ELSE <<expr.Name>>

(***************************************************************************)
(* C25: foldRightBinary folds an operand/operator sequence right to left   *)
(* into a right-associative tree: for the left operand a and the rest      *)
(* [(op1, b), (op2, c)] the result is a op1 (b op2 c), and for an empty    *)
(* rest it is the left operand unchanged.                                  *)
(***************************************************************************)
C25_FoldRightIsRightAssociative ==
    fold.fn = "foldRightBinary" =>
       /\ Len(fold.rest) = 0 => fold.result = fold.left
       /\ Len(fold.rest) = 2 =>
             Shape(fold.result) =
                <<Shape(fold.left), fold.rest[1][1],
                  <<Shape(fold.rest[1][2]), fold.rest[2][1],
                    Shape(fold.rest[2][2])>>>>

\* the mode the command line asks for.
Mode(c) ==
    IF c.showVersion THEN "version"
    ELSE IF c.showBuildInfo THEN "build-info"
    ELSE IF Len(c.args) = 0 THEN "repl"
    ELSE IF Len(c.args) = 1 /\ HasSuffixWsj(c.args[1]) THEN "script"
    ELSE "program"

\* the text of the script file as it is handed on.
ScriptInput ==
    IF file.data # <<>> /\ Head(file.data) = Shebang
    THEN <<Slashes>> \o Tail(file.data)
    ELSE file.data

\* only `text` was written, on stdout.
PrintedOnly(text) == shown = <<Message("stdout", text, NoError)>>

\* the process ended on an error.
EndedOnError ==
    /\ mpc = "exited"
    /\ \E k \in 1..Len(shown) : shown[k].err.failed

(***************************************************************************)
(* C26: the command-line dispatcher picks exactly one mode per invocation: *)
(* --version or --build-info print and return before anything is parsed or *)
(* run; otherwise no arguments start the REPL, exactly one argument ending *)
(* in `.wsj` runs that file as a script, and every other argument list is  *)
(* joined with single spaces and evaluated as a program; an error in the   *)
(* chosen mode yields exit status 1.                                       *)
(***************************************************************************)
C26_DispatcherPicksOneMode ==
    mpc \in {"repl", "exited"} =>
       /\ Mode(cmdline) = "version" =>
             /\ PrintedOnly("version.Short()")
             /\ ~call.made /\ ~interp.made
             /\ mpc = "exited" /\ exit = 0
       /\ Mode(cmdline) = "build-info" =>
             /\ PrintedOnly("version.String()")
             /\ ~call.made /\ ~interp.made
             /\ mpc = "exited" /\ exit = 0
       /\ Mode(cmdline) = "repl" =>
             /\ call.made => ByREPL(call)
             /\ mpc = "repl" => interp.made
       /\ Mode(cmdline) = "script" =>
             /\ mpc = "exited" /\ ~interp.made
             /\ call.made = file.exists
             /\ call.made => /\ call.input = ScriptInput
                             /\ ~call.interp.made
       /\ Mode(cmdline) = "program" =>
             /\ mpc = "exited" /\ ~interp.made
             /\ call.made /\ ~call.interp.made
             /\ call.input = JoinArgs(cmdline.args)
       /\ (Mode(cmdline) \in {"script", "program"} /\ call.err.failed) =>
             exit = 1
       /\ EndedOnError => exit = 1

====
